---- MODULE Spec2Model ----
(***************************************************************************)
(* Shader state management of regl (lib/shader.js, wrapShaderState).       *)
(*                                                                         *)
(* The module models the closure state of wrapShaderState (shader cache,   *)
(* program cache, list of known programs, attribute stacks, binding slots, *)
(* program stack), the GPU context it drives, and one action per exported  *)
(* or internal operation.  JavaScript objects used as maps are modelled as *)
(* insertion-ordered sequences of <<key, value>> pairs; heap objects       *)
(* (REGLProgram) live in `heap` and are referred to by their index.        *)
(***************************************************************************)
EXTENDS Integers, Sequences, FiniteSets, TLC

VARIABLES
    glHasDestroyShader, \* whether the context object has a destroyShader method
    glShaders,          \* GPU shader objects, by handle (index)
    glPrograms,         \* GPU program objects, by handle (index)
    glCalls,            \* the GPU calls issued by the last operation, in order
    shaders,            \* var shaders: kind -> (source -> handle)
    programs,           \* var programs: source -> (source -> program object)
    programList,        \* var programList
    heap,               \* the REGLProgram objects ever constructed
    uniforms,           \* var uniforms: name -> list
    attributes,         \* var attributes: name -> AttributeStack
    shaderStack,        \* var shaderStack
    attributeBindings,  \* var attributeBindings: slot -> AttributeRecord
    glArrayBuffer,      \* the buffer currently bound on the GPU
    USE_INSTANCING,     \* var USE_INSTANCING: the instancing extension exists
    handedOut,          \* per program object: was it returned to a caller
    rets,               \* results of the getShader calls of the last operation
    ops,                \* the most recent operations, newest last
    eq                  \* inputs and result of AttributeRecord.equals

vars == <<glHasDestroyShader, glShaders, glPrograms, glCalls, shaders,
          programs, programList, heap, uniforms, attributes, shaderStack,
          attributeBindings, glArrayBuffer, USE_INSTANCING, handedOut, rets,
          ops, eq>>

-----------------------------------------------------------------------------
(* Bounds of the model *)

MaxObjects == 2       \* REGLProgram objects constructed in one run
MaxGlPrograms == 4    \* GPU program handles created in one run
MaxProgramDepth == 2  \* pushes on the program stack beyond its base frame
MaxFrames == 2        \* depth of an attribute stack in SpecRegister
MaxStackOps == 4      \* operations of one run of SpecStack
MaxOverrides == 2     \* values a caller keeps on one uniform's override list

-----------------------------------------------------------------------------
(* JavaScript values *)

Null == 0

GL_FLOAT == "FLOAT"
GL_FRAGMENT_SHADER == "FRAGMENT_SHADER"
GL_VERTEX_SHADER == "VERTEX_SHADER"

\* A plain object used as a map: insertion-ordered <<key, value>> pairs.
EmptyObject == << >>

Keys(o) == [i \in 1..Len(o) |-> o[i][1]]

Has(o, k) == \E i \in 1..Len(o) : o[i][1] = k

Get(o, k) == o[CHOOSE i \in 1..Len(o) : o[i][1] = k][2]

Put(o, k, v) ==
    IF Has(o, k)
    THEN [i \in 1..Len(o) |-> IF o[i][1] = k THEN <<k, v>> ELSE o[i]]
    ELSE Append(o, <<k, v>>)

Last(s) == s[Len(s)]

\* The newest n operations.
Log(o, n) ==
    LET all == Append(ops, o)
    IN IF Len(all) > n THEN SubSeq(all, Len(all) - n + 1, Len(all)) ELSE all

Op(name, args, ret, thrown) ==
    [name |-> name, args |-> args, ret |-> ret, thrown |-> thrown]

\* The newest operation alone.
Log1(o) == << o >>

-----------------------------------------------------------------------------
(* The error-reporting collaborator *)

NoError == [aborts |-> FALSE, kind |-> "none", message |-> "none"]

\* check.raiseRuntime aborts the current operation with a diagnostic.
raiseRuntime(kind, message) ==
    [aborts |-> TRUE, kind |-> kind, message |-> message]

Threw(m) == m.thrown.kind # "none"

-----------------------------------------------------------------------------
(* The GPU context: what it answers for the source texts of the model *)

Sources == {"s1", "s2", "bad"}

\* gl.getShaderParameter(shader, gl.COMPILE_STATUS)
CompileStatus(type, source) == source # "bad"

\* gl.getProgramParameter(program, gl.LINK_STATUS)
LinkStatus(fragSrc, vertSrc) == ~(fragSrc = "s2" /\ vertSrc = "s2")

NoInfo == [name |-> << >>, size |-> 0]

\* gl.getActiveUniform: the uniforms a fragment source declares.
ActiveUniforms(fragSrc) ==
    IF fragSrc = "s1"
    THEN << [name |-> <<"u", "[", "0", "]">>, size |-> 3] >>
    ELSE IF fragSrc = "s3"
    THEN << [name |-> <<"a", "[", "0", "]", ".", "b", "[", "0", "]">>,
             size |-> 2] >>
    ELSE << NoInfo, [name |-> <<"c">>, size |-> 1] >>

\* gl.getActiveAttrib: the attributes a vertex source declares.
ActiveAttribs(vertSrc) ==
    IF vertSrc = "s1"
    THEN << [name |-> <<"p">>, size |-> 1] >>
    ELSE << [name |-> <<"p">>, size |-> 1], NoInfo,
            [name |-> <<"q">>, size |-> 1] >>

Call(fn, args) == [fn |-> fn, args |-> args]


-----------------------------------------------------------------------------
(* Strings, as sequences of characters *)

Digits == <<"0", "1", "2", "3", "4", "5", "6", "7", "8", "9">>

\* '' + j for a non-negative integer j
RECURSIVE NumberToString(_)
NumberToString(j) ==
    IF j < 10 THEN << Digits[j + 1] >>
    ELSE NumberToString(j \div 10) \o << Digits[(j % 10) + 1] >>

\* The position of the first occurrence of pat in s, 0 when there is none.
IndexOf(s, pat) ==
    LET At(i) == SubSeq(s, i, i + Len(pat) - 1) = pat
        Hits == {i \in 1..(Len(s) - Len(pat) + 1) : At(i)}
    IN IF Hits = {} THEN 0
       ELSE CHOOSE i \in Hits : \A j \in Hits : i <= j

\* String.prototype.replace with a string pattern: the first occurrence only.
replace(s, pat, rep) ==
    LET i == IndexOf(s, pat)
    IN IF i = 0 THEN s
       ELSE SubSeq(s, 1, i - 1) \o rep \o SubSeq(s, i + Len(pat), Len(s))

-----------------------------------------------------------------------------
(* Attribute state *)

AttributeRecord ==
    [pointer |-> FALSE,
     x |-> 0, y |-> 0, z |-> 0, w |-> 0,
     buffer |-> Null, size |-> 0, normalized |-> FALSE, type |-> GL_FLOAT,
     offset |-> 0, stride |-> 0, divisor |-> 0]

\* AttributeRecord.prototype.equals
equals(this, other, size) ==
    IF this.pointer
    THEN /\ other.pointer
         /\ this.x = other.x
         /\ this.y = other.y
         /\ this.z = other.z
         /\ this.w = other.w
    ELSE /\ ~other.pointer
         /\ this.buffer = other.buffer
         /\ this.size = size
         /\ this.normalized = other.normalized
         /\ this.type = other.type
         /\ this.offset = other.offset
         /\ this.stride = other.stride
         /\ this.divisor = other.divisor

\* AttributeRecord.prototype.copy: the record `this` afterwards.
copy(this, other, size) ==
    IF other.pointer
    THEN [this EXCEPT !.pointer = other.pointer,
                      !.buffer = other.buffer, !.size = size,
                      !.normalized = other.normalized, !.type = other.type,
                      !.offset = other.offset, !.stride = other.stride,
                      !.divisor = other.divisor]
    ELSE [this EXCEPT !.pointer = other.pointer,
                      !.x = other.x, !.y = other.y, !.z = other.z,
                      !.w = other.w]

PreallocatedFrames == 16

\* records is the backing array (JavaScript index i is records[i + 1]).
AttributeStack ==
    [records |-> [i \in 1..PreallocatedFrames |-> AttributeRecord], top |-> 0]

defAttribute(attrs, name) == Put(attrs, name, AttributeStack)

\* [] evaluated with the registry unis in place: an empty array that is none
\* of the arrays the registry holds.
NewList(unis) ==
    LET used == {unis[k][2].object : k \in 1..Len(unis)}
    IN [object |-> IF used = {} THEN 1
                   ELSE 1 + CHOOSE x \in used : \A y \in used : y <= x,
        items |-> << >>]

\* A faulty defUniform without the membership test; C14 must tell it from
\* defUniform.
defUniformReplacing(unis, name) == Put(unis, name, NewList(unis))

defUniform(unis, name) ==
    IF Has(unis, name) THEN unis ELSE Put(unis, name, NewList(unis))

-----------------------------------------------------------------------------
(* Shader compilation *)

\* m is the state an operation threads through the calls it makes: the
\* closure variables and the GPU objects it may change, the GPU calls and
\* getShader results so far, the exception thrown and the value returned.
Machine ==
    [shaders |-> shaders, glShaders |-> glShaders, glPrograms |-> glPrograms,
     heap |-> heap, attributes |-> attributes, glCalls |-> << >>,
     rets |-> << >>, thrown |-> NoError,
     programs |-> programs, programList |-> programList, ret |-> Null]

\* getShader returning ret (Null when it raised instead).
ShaderResult(m, type, source, ret) ==
    [m EXCEPT !.rets = Append(@, [type |-> type, source |-> source, ret |-> ret])]

\* A faulty getShader that returns the handle without caching it; C2 must
\* tell it from storeShader.
storeShaderUncached(m, type, source, shader) ==
    ShaderResult(m, type, source, shader)

\* cache[source] = shader; return shader
storeShader(m, type, source, shader) ==
    ShaderResult([m EXCEPT !.shaders = Put(@, type, Put(Get(@, type), source, shader))],
                 type, source, shader)

\* A faulty failure branch that caches the shader before it raises; C3 must
\* tell it from failShader.
failShaderCached(m, type, source, shader, e) ==
    ShaderResult([m EXCEPT !.thrown = e,
                           !.shaders = Put(@, type, Put(Get(@, type), source, shader))],
                 type, source, Null)

\* The failure branch: the error e is raised; were it not to abort, the code
\* would go on to cache the shader.
failShader(m, type, source, shader, e) ==
    IF e.aborts
    THEN ShaderResult([m EXCEPT !.thrown = e], type, source, Null)
    ELSE storeShader(m, type, source, shader)

\* The miss branch, after createShader, shaderSource and compileShader.
checkShader(m, type, source, fmtOK, shader) ==
    IF ~CompileStatus(type, source)
    THEN failShader([m EXCEPT !.glCalls =
                        Append(@, Call("getShaderInfoLog", <<shader>>))],
                    type, source, shader,
                    IF fmtOK THEN raiseRuntime("CompileError", "fmt.short")
                    ELSE raiseRuntime("CompileError", "raw log"))
    ELSE storeShader(m, type, source, shader)

createShader(m, type, source, fmtOK, shader) ==
    checkShader([m EXCEPT
                   !.glShaders = Append(@, [type |-> type, source |-> source]),
                   !.glCalls = @ \o << Call("createShader", <<type, shader>>),
                                       Call("shaderSource", <<shader, source>>),
                                       Call("compileShader", <<shader>>),
                                       Call("getShaderParameter", <<shader>>) >>],
                type, source, fmtOK, shader)

\* A faulty getShader that compiles on every call without consulting the
\* cache; C13 must tell it from getShader.
getShaderAlwaysCompiling(m, type, source, fmtOK) ==
    createShader(m, type, source, fmtOK, Len(m.glShaders) + 1)

\* fmtOK: whether formatCompilerError returns (it may throw instead).
getShader(m, type, source, fmtOK) ==
    IF Has(Get(m.shaders, type), source)
    THEN ShaderResult(m, type, source, Get(Get(m.shaders, type), source))
    ELSE createShader(m, type, source, fmtOK, Len(m.glShaders) + 1)

\* A faulty refreshShaders that keeps the cached handles; C6 must tell it
\* from refreshShaders.
refreshShadersKept(shd) == shd

refreshShaders(shd) ==
    Put(Put(shd, GL_FRAGMENT_SHADER, EmptyObject), GL_VERTEX_SHADER, EmptyObject)

\* The keys the two forEach loops of clearShaders visit, in order.
ShaderKeys(shd) ==
    IF Len(shd) = 0 THEN << >>
    ELSE IF Len(shd) = 1 THEN Keys(shd[1][2])
    ELSE Keys(shd[1][2]) \o Keys(shd[2][2])

\* clearShaders: gl.destroyShader on every key of the two maps, then reset.
clearShaders(m, hasDestroyShader) ==
    IF ShaderKeys(m.shaders) # << >> /\ ~hasDestroyShader
    THEN [m EXCEPT !.thrown =
            [aborts |-> TRUE, kind |-> "TypeError",
             message |-> "gl.destroyShader is not a function"]]
    ELSE [m EXCEPT
            !.glCalls = @ \o [i \in 1..Len(ShaderKeys(m.shaders)) |->
                                Call("destroyShader", <<ShaderKeys(m.shaders)[i]>>)],
            !.shaders = Put(Put(@, GL_FRAGMENT_SHADER, EmptyObject),
                            GL_VERTEX_SHADER, EmptyObject)]

-----------------------------------------------------------------------------
(* Program linking *)

UniformInfo(name, location, info) ==
    [name |-> name, location |-> location, info |-> info]

AttributeInfo(name, location, info) ==
    [name |-> name, location |-> location, info |-> info]

REGLProgram(fragSrc, vertSrc) ==
    [fragSrc |-> fragSrc, vertSrc |-> vertSrc, program |-> Null,
     uniforms |-> << >>, attributes |-> << >>, poll |-> "noop"]

\* compileShaderPoll has no return statement: its value is undefined.
compileShaderPoll(program) == "undefined"

\* The names one active uniform is registered under.
UniformNames(info) ==
    IF info.size > 1
    THEN [j \in 1..info.size |->
            replace(info.name, <<"[", "0", "]">>,
                    <<"[">> \o NumberToString(j - 1) \o <<"]">>)]
    ELSE << info.name >>

RECURSIVE defAttributes(_, _)
defAttributes(attrs, names) ==
    IF names = << >> THEN attrs
    ELSE defAttributes(defAttribute(attrs, Head(names)), Tail(names))

\* One pass of the uniform loop for a non-null info with its names.
addUniforms(m, id, info, names) ==
    [m EXCEPT
       !.heap[id].uniforms = @ \o
           [k \in 1..Len(names) |->
              UniformInfo(names[k], <<m.heap[id].program, names[k]>>, info)],
       !.attributes = defAttributes(@, names),
       !.glCalls = @ \o
           [k \in 1..Len(names) |->
              Call("getUniformLocation", <<m.heap[id].program, names[k]>>)]]

RECURSIVE grabUniforms(_, _, _, _)
grabUniforms(m, id, infos, i) ==
    IF i > Len(infos) THEN m
    ELSE IF infos[i] = NoInfo THEN grabUniforms(m, id, infos, i + 1)
    ELSE grabUniforms(addUniforms(m, id, infos[i], UniformNames(infos[i])),
                      id, infos, i + 1)

\* One pass of the attribute loop for a non-null info; slot is what
\* gl.getAttribLocation answers.
addAttribute(m, id, info, slot) ==
    [m EXCEPT
       !.heap[id].attributes = Append(@, AttributeInfo(info.name, slot, info)),
       !.attributes = defAttribute(@, info.name),
       !.glCalls = Append(@, Call("getAttribLocation",
                                  <<m.heap[id].program, info.name>>))]

RECURSIVE grabAttributes(_, _, _, _)
grabAttributes(m, id, infos, i) ==
    IF i > Len(infos) THEN m
    ELSE IF infos[i] = NoInfo THEN grabAttributes(m, id, infos, i + 1)
    ELSE grabAttributes(addAttribute(m, id, infos[i], i - 1), id, infos, i + 1)

\* The sources of the shaders attached to the GPU program of object id.
AttachedFragSrc(m, id) == m.glShaders[m.glPrograms[m.heap[id].program].frag].source
AttachedVertSrc(m, id) == m.glShaders[m.glPrograms[m.heap[id].program].vert].source

\* link(), from "grab uniforms" on.
linkIntrospect(m, id) ==
    [grabAttributes(
        [grabUniforms([m EXCEPT !.heap[id].uniforms = << >>], id,
                      ActiveUniforms(AttachedFragSrc(m, id)), 1)
           EXCEPT !.heap[id].attributes = << >>],
        id, ActiveAttribs(AttachedVertSrc(m, id)), 1)
       EXCEPT !.heap[id].poll = compileShaderPoll(id)]

\* The failure branch of the link-status check.
linkFailed(m, id, e) ==
    IF e.aborts THEN [m EXCEPT !.thrown = e] ELSE linkIntrospect(m, id)

linkCheck(m, id) ==
    IF ~LinkStatus(AttachedFragSrc(m, id), AttachedVertSrc(m, id))
    THEN linkFailed([m EXCEPT !.glCalls =
                        Append(@, Call("getProgramInfoLog", <<m.heap[id].program>>))],
                    id, raiseRuntime("LinkError", "raw log"))
    ELSE linkIntrospect(m, id)

\* createProgram, attachShader twice, linkProgram and the status query.
linkProgram(m, id, fragShader, vertShader, program) ==
    linkCheck([m EXCEPT
                 !.heap[id].program = program,
                 !.glPrograms = Append(@, [frag |-> fragShader,
                                           vert |-> vertShader,
                                           deleted |-> FALSE]),
                 !.glCalls = @ \o
                     << Call("createProgram", <<program>>),
                        Call("attachShader", <<program, fragShader>>),
                        Call("attachShader", <<program, vertShader>>),
                        Call("linkProgram", <<program>>),
                        Call("getProgramParameter", <<program>>) >>],
              id)

\* link() after its second getShader call.
linkAttach(m, id, fragShader) ==
    IF Threw(m) THEN m
    ELSE linkProgram(m, id, fragShader, Last(m.rets).ret, Len(m.glPrograms) + 1)

\* link() after its first getShader call.
linkVertex(m, id, fmtOK) ==
    IF Threw(m) THEN m
    ELSE linkAttach(getShader(m, GL_VERTEX_SHADER, m.heap[id].vertSrc, fmtOK),
                    id, Last(m.rets).ret)

\* REGLProgram.prototype.link
link(m, id, fmtOK) ==
    linkVertex(getShader(m, GL_FRAGMENT_SHADER, m.heap[id].fragSrc, fmtOK),
               id, fmtOK)

\* getProgram after link(): cache[vertSource] = program; programList.push.
registerProgram(m, slot, vertSource, id) ==
    IF Threw(m) THEN m
    ELSE [m EXCEPT
            !.programs = Put(@, slot, Put(Get(@, slot), vertSource, id)),
            !.programList = Append(@, id),
            !.ret = id]

\* getProgram once `cache` is chosen; slot is the key of `programs` under
\* which that object is stored.
lookupProgram(m, slot, vertSource, fragSource, fmtOK) ==
    IF Has(Get(m.programs, slot), vertSource)
    THEN [m EXCEPT !.ret = Get(Get(m.programs, slot), vertSource)]
    ELSE registerProgram(
           link([m EXCEPT !.heap = Append(@, REGLProgram(fragSource, vertSource))],
                Len(m.heap) + 1, fmtOK),
           slot, vertSource, Len(m.heap) + 1)

\* getProgram (exported as create)
getProgram(m, vertSource, fragSource, fmtOK) ==
    IF Has(m.programs, fragSource)
    THEN lookupProgram(m, fragSource, vertSource, fragSource, fmtOK)
    ELSE lookupProgram([m EXCEPT !.programs = Put(@, vertSource, EmptyObject)],
                       vertSource, vertSource, fragSource, fmtOK)

RECURSIVE relink(_, _)
relink(m, i) ==
    IF i > Len(m.programList) \/ Threw(m) THEN m
    ELSE relink(link(m, m.programList[i], TRUE), i + 1)

refreshPrograms(m) == relink(m, 1)

\* clearPrograms: destroy() every known program, then empty list and cache.
clearPrograms(m) ==
    IF Threw(m) THEN m
    ELSE [m EXCEPT
       !.glPrograms = [h \in 1..Len(@) |->
           IF \E i \in 1..Len(m.programList) : m.heap[m.programList[i]].program = h
           THEN [@[h] EXCEPT !.deleted = TRUE] ELSE @[h]],
       !.glCalls = @ \o [i \in 1..Len(m.programList) |->
           Call("deleteProgram", <<m.heap[m.programList[i]].program>>)],
       !.programList = << >>,
       !.programs = EmptyObject]

\* clear(); an exception in clearShaders ends it.
clear(m, hasDestroyShader) == clearPrograms(clearShaders(m, hasDestroyShader))

refresh(m) == refreshPrograms([m EXCEPT !.shaders = refreshShaders(@)])

-----------------------------------------------------------------------------
(* Attribute stacks *)

TypeError(message) == [aborts |-> TRUE, kind |-> "TypeError", message |-> message]

\* A faulty push that allocates all records anew when it grows; C8 must tell
\* it from push.
pushReallocating(stack) ==
    LET n == Len(stack.records)
        grown == IF n <= stack.top
                 THEN [i \in 1..(stack.top + 1) |-> AttributeRecord]
                 ELSE stack.records
    IN [records |-> grown, top |-> stack.top + 1]

\* AttributeStack.prototype.push: the stack afterwards; the frame it returns
\* is records[stack.top] (JavaScript index), undefined when stack.top < 0.
push(stack) ==
    LET n == Len(stack.records)
        grown == IF n <= stack.top
                 THEN stack.records \o [i \in 1..(stack.top + 1 - n) |-> AttributeRecord]
                 ELSE stack.records
    IN [records |-> grown, top |-> stack.top + 1]

\* pushAttribute on a registered name's stack: [stack, thrown].
pushAttribute(stack, x, y, z, w) ==
    LET s1 == push(stack)
    IN IF stack.top < 0
       THEN [stack |-> s1, thrown |-> TypeError("head is undefined")]
       ELSE [stack |-> [s1 EXCEPT !.records[stack.top + 1] =
                          [@ EXCEPT !.pointer = FALSE,
                                    !.x = x, !.y = y, !.z = z, !.w = w]],
             thrown |-> NoError]

pushAttributePointer(stack, buffer, size, offset, stride, divisor, normalized, type) ==
    LET s1 == push(stack)
    IN IF stack.top < 0
       THEN [stack |-> s1, thrown |-> TypeError("head is undefined")]
       ELSE [stack |-> [s1 EXCEPT !.records[stack.top + 1] =
                          [@ EXCEPT !.pointer = TRUE,
                                    !.buffer = buffer, !.size = size,
                                    !.offset = offset, !.stride = stride,
                                    !.divisor = divisor,
                                    !.normalized = normalized, !.type = type]],
             thrown |-> NoError]

popAttribute(stack) == [stack EXCEPT !.top = @ - 1]

-----------------------------------------------------------------------------
(* Shader binding *)

pushProgram(stack, program) == Append(stack, program)

popProgram(stack) ==
    IF stack = << >> THEN stack ELSE SubSeq(stack, 1, Len(stack) - 1)

\* The value poll() reads as activeShader (Null also for undefined).
ActiveShader(stack) == IF stack = << >> THEN Null ELSE Last(stack)

\* poll(): [glCalls, thrown].
poll(stack, objects) ==
    LET activeShader == ActiveShader(stack)
    IN IF activeShader # Null
       THEN [glCalls |-> << >>,
             thrown |-> IF objects[activeShader].poll = "undefined"
                        THEN TypeError("activeShader.poll is not a function")
                        ELSE NoError]
       ELSE [glCalls |-> << Call("useProgram", <<Null>>) >>, thrown |-> NoError]

-----------------------------------------------------------------------------
(* Specification Spec: the caches, the program stack and the lifecycle *)

NUM_ATTRIBUTES == 2

InitContext ==
    /\ glHasDestroyShader \in BOOLEAN
    /\ glShaders = << >>
    /\ glPrograms = << >>
    /\ glCalls = << >>
    /\ glArrayBuffer = Null

\* The state wrapShaderState returns in, after its call of clear(); the
\* attribute stacks are set by each specification.
InitState ==
    /\ shaders = << <<GL_FRAGMENT_SHADER, EmptyObject>>,
                    <<GL_VERTEX_SHADER, EmptyObject>> >>
    /\ programs = EmptyObject
    /\ programList = << >>
    /\ heap = << >>
    /\ uniforms = EmptyObject
    /\ shaderStack = << Null >>
    /\ attributeBindings = [i \in 1..NUM_ATTRIBUTES |-> AttributeRecord]
    /\ handedOut = << >>
    /\ rets = << >>
    /\ ops = << >>

NoEquals == [done |-> FALSE]

Init ==
    /\ InitContext /\ InitState
    /\ USE_INSTANCING = FALSE
    /\ attributes = EmptyObject
    /\ eq = NoEquals

\* The objects a caller holds a reference to.
Issued == {id \in 1..Len(handedOut) : handedOut[id] # "no"}

\* Writes back what an operation left in the threaded state.
Commit(m) ==
    /\ shaders' = m.shaders
    /\ glShaders' = m.glShaders
    /\ glPrograms' = m.glPrograms
    /\ heap' = m.heap
    /\ attributes' = m.attributes
    /\ glCalls' = m.glCalls
    /\ rets' = m.rets
    /\ programs' = m.programs
    /\ programList' = m.programList

OtherStateUnchanged ==
    UNCHANGED <<glHasDestroyShader, uniforms, shaderStack, attributeBindings,
                glArrayBuffer, USE_INSTANCING, eq>>

\* getProgram returned or raised, leaving m. fmtOK is the outcome of
\* formatCompilerError, drawn only when it is called.
GetProgramDone(m, vertSource, fragSource, fmtOK) ==
    /\ Len(m.heap) <= MaxObjects
    /\ Len(m.glPrograms) <= MaxGlPrograms
    /\ fmtOK \/ m.thrown.kind = "CompileError"
    /\ Commit(m)
    /\ handedOut' =
         [id \in 1..Len(m.heap) |->
            IF id = m.ret THEN "current"
            ELSE IF id > Len(handedOut) THEN "no"
            ELSE handedOut[id]]
    /\ ops' = Log1(Op("getProgram", <<vertSource, fragSource, fmtOK>>,
                      m.ret, m.thrown))
    /\ OtherStateUnchanged

GetProgramStep(vertSource, fragSource, fmtOK) ==
    GetProgramDone(getProgram(Machine, vertSource, fragSource, fmtOK),
                   vertSource, fragSource, fmtOK)

GetProgram ==
    \E vertSource \in Sources, fragSource \in Sources, fmtOK \in BOOLEAN :
        GetProgramStep(vertSource, fragSource, fmtOK)

ClearDone(m) ==
    /\ Commit(m)
    /\ handedOut' =
         IF Threw(m) THEN handedOut
         ELSE [id \in 1..Len(handedOut) |->
                 IF handedOut[id] = "current" THEN "stale" ELSE handedOut[id]]
    /\ ops' = Log1(Op("clear", << >>, Null, m.thrown))
    /\ OtherStateUnchanged

Clear == ClearDone(clear(Machine, glHasDestroyShader))

RefreshDone(m) ==
    /\ Commit(m)
    /\ ops' = Log1(Op("refresh", << >>, Null, m.thrown))
    /\ UNCHANGED handedOut
    /\ OtherStateUnchanged

Refresh ==
    /\ Len(glPrograms) + Len(programList) <= MaxGlPrograms
    /\ RefreshDone(refresh(Machine))

PushProgram ==
    /\ Len(shaderStack) <= MaxProgramDepth
    /\ \E program \in Issued :
         /\ shaderStack' = pushProgram(shaderStack, program)
         /\ ops' = Log1(Op("pushProgram", <<program>>, Null, NoError))
    /\ glCalls' = << >>
    /\ rets' = << >>
    /\ UNCHANGED <<glHasDestroyShader, glShaders, glPrograms, shaders, programs,
                   programList, heap, uniforms, attributes, attributeBindings,
                   glArrayBuffer, USE_INSTANCING, handedOut, eq>>

PopProgram ==
    /\ shaderStack' = popProgram(shaderStack)
    /\ ops' = Log1(Op("popProgram", << >>, Null, NoError))
    /\ glCalls' = << >>
    /\ rets' = << >>
    /\ UNCHANGED <<glHasDestroyShader, glShaders, glPrograms, shaders, programs,
                   programList, heap, uniforms, attributes, attributeBindings,
                   glArrayBuffer, USE_INSTANCING, handedOut, eq>>

Poll ==
    /\ LET r == poll(shaderStack, heap)
       IN /\ glCalls' = r.glCalls
          /\ ops' = Log1(Op("poll", << >>, ActiveShader(shaderStack), r.thrown))
    /\ rets' = << >>
    /\ UNCHANGED <<glHasDestroyShader, glShaders, glPrograms, shaders, programs,
                   programList, heap, uniforms, attributes, shaderStack,
                   attributeBindings, glArrayBuffer, USE_INSTANCING, handedOut,
                   eq>>

Next == GetProgram \/ Clear \/ Refresh

Spec == Init /\ [][Next]_vars

\* The newest operation.
LastOp == IF ops = << >> THEN Op("none", << >>, Null, NoError) ELSE Last(ops)

Kinds == {GL_FRAGMENT_SHADER, GL_VERTEX_SHADER}

\* The handle the shader cache shd holds for a key, Null when it holds none.
CachedHandle(shd, type, source) ==
    IF Has(shd, type) /\ Has(Get(shd, type), source)
    THEN Get(Get(shd, type), source) ELSE Null

\* How many compileShader calls among `calls` were made for a key.
Compiles(calls, gs, type, source) ==
    Cardinality({i \in 1..Len(calls) :
                   /\ calls[i].fn = "compileShader"
                   /\ gs[calls[i].args[1]] = [type |-> type, source |-> source]})

Called(rs, type, source) ==
    \E i \in 1..Len(rs) : rs[i].type = type /\ rs[i].source = source

HasCall(calls, fn) == \E i \in 1..Len(calls) : calls[i].fn = fn

-----------------------------------------------------------------------------
(* Claims checked under Spec *)

\* C1: with no clear() in between, getProgram calls with one identical
\* (vertexSource, fragmentSource) pair return one LinkedProgram instance: no
\* two distinct program objects handed out since the last clear() were built
\* (and linked) for the same pair.
C1_OneInstancePerPair ==
    \A i \in 1..Len(heap), j \in 1..Len(heap) :
        ( /\ handedOut[i] = "current" /\ handedOut[j] = "current"
          /\ heap[i].vertSrc = heap[j].vertSrc
          /\ heap[i].fragSrc = heap[j].fragSrc ) => i = j

\* C2: for a key that compiles, every getShader call returns the handle the
\* cache holds for it; a call on a cached key keeps that handle and issues no
\* create/compile, and a key is compiled exactly once between two resets.
C2_OneCompilePerKey ==
    [][\A type \in Kinds, source \in Sources :
         CompileStatus(type, source) =>
           LET h == CachedHandle(shaders, type, source)
               resets == Last(ops').name \in {"clear", "refresh"}
           IN /\ \A i \in 1..Len(rets') :
                    (rets'[i].type = type /\ rets'[i].source = source) =>
                      /\ rets'[i].ret # Null
                      /\ rets'[i].ret = CachedHandle(shaders', type, source)
              /\ Compiles(glCalls', glShaders', type, source) =
                    IF Called(rets', type, source) /\ (h = Null \/ resets)
                    THEN 1 ELSE 0
              /\ (h # Null /\ ~resets) =>
                    CachedHandle(shaders', type, source) = h]_vars

\* C2 witness: a link that took both of its shaders from the cache.
C2_Witness ==
    /\ LastOp.name = "getProgram"
    /\ LastOp.thrown.kind = "none"
    /\ Len(rets) = 2
    /\ HasCall(glCalls, "createProgram")
    /\ ~HasCall(glCalls, "compileShader")

\* C3: a getShader call whose compile-status check fails raises CompileError
\* with the formatted diagnostic (the raw log when formatting fails), returns
\* no handle and ends the operation; the key is never cached, and every call
\* with such a key compiles it anew.
C3_FailedCompileNotCached ==
    [][/\ \A type \in Kinds, source \in Sources :
            ~CompileStatus(type, source) =>
              CachedHandle(shaders', type, source) = Null
       /\ \A i \in 1..Len(rets') :
            ~CompileStatus(rets'[i].type, rets'[i].source) =>
              /\ rets'[i].ret = Null
              /\ i = Len(rets')
              /\ Last(ops').thrown.kind = "CompileError"
              /\ Last(ops').ret = Null
              /\ Last(ops').name = "getProgram" =>
                    Last(ops').thrown.message =
                      IF Last(ops').args[3] THEN "fmt.short" ELSE "raw log"
              /\ Compiles(glCalls', glShaders', rets'[i].type,
                          rets'[i].source) = 1]_vars

\* C3 witness: a failed compile was retried with the same key and failed again,
\* formatting of the diagnostic failing too.
C3_Witness ==
    /\ LastOp.thrown.kind = "CompileError"
    /\ LastOp.thrown.message = "raw log"
    /\ \E a \in 1..Len(glShaders), b \in 1..Len(glShaders) :
         a # b /\ glShaders[a] = glShaders[b]
               /\ ~CompileStatus(glShaders[a].type, glShaders[a].source)

\* C4: every getProgram call with a pair that compiles and whose link-status
\* check fails attempts the link, raises LinkError and returns no program,
\* and leaves the list of known programs as it was.
C4_FailedLinkRaisesAndRetries ==
    [][Last(ops').name = "getProgram" =>
         LET vertSource == Last(ops').args[1]
             fragSource == Last(ops').args[2]
         IN ( /\ CompileStatus(GL_FRAGMENT_SHADER, fragSource)
              /\ CompileStatus(GL_VERTEX_SHADER, vertSource)
              /\ ~LinkStatus(fragSource, vertSource) ) =>
              /\ HasCall(glCalls', "linkProgram")
              /\ Last(ops').thrown.kind = "LinkError"
              /\ Last(ops').ret = Null
              /\ programList' = programList]_vars

\* C5: clear() followed by refresh() re-links every program handed out
\* before, and each is afterwards a linked program that can be polled.
C5_ClearRefreshRestores ==
    [][(LastOp.name = "clear" /\ Last(ops').name = "refresh") =>
         \A id \in Issued :
            /\ heap'[id].program > Len(glPrograms)
            /\ ~glPrograms'[heap'[id].program].deleted
            /\ heap'[id].poll # "undefined"]_vars

\* C6: refresh() re-links every known program in place: the list holds the
\* same objects in the same order, each with a newly created GPU program of
\* its own whose shaders were compiled during this refresh from the object's
\* retained sources; no object is added and no other object is touched.
C6_RefreshPreservesIdentity ==
    [][Last(ops').name = "refresh" =>
         /\ Last(ops').thrown.kind = "none"
         /\ programList' = programList
         /\ Len(heap') = Len(heap)
         /\ \A id \in 1..Len(heap) :
              (\A i \in 1..Len(programList) : programList[i] # id) =>
                 heap'[id] = heap[id]
         /\ \A i \in 1..Len(programList) :
              LET id == programList[i]
                  h == heap'[id].program
              IN /\ heap'[id].fragSrc = heap[id].fragSrc
                 /\ heap'[id].vertSrc = heap[id].vertSrc
                 /\ h > Len(glPrograms)
                 /\ \A j \in 1..Len(programList) :
                      j # i => heap'[programList[j]].program # h
                 /\ glPrograms'[h].frag > Len(glShaders)
                 /\ glShaders'[glPrograms'[h].frag] =
                      [type |-> GL_FRAGMENT_SHADER, source |-> heap[id].fragSrc]
                 /\ glPrograms'[h].vert > Len(glShaders)
                 /\ glShaders'[glPrograms'[h].vert] =
                      [type |-> GL_VERTEX_SHADER, source |-> heap[id].vertSrc]]_vars

\* C6 witness: a refresh with two known programs.
C6_Witness ==
    /\ LastOp.name = "refresh"
    /\ Len(programList) >= 2
    /\ HasCall(glCalls, "linkProgram")

\* C13 as stated: in a step that is not clear(), a lookup of a key for which
\* the cache holds a handle (one returned earlier since the last clear())
\* returns that handle.
C13_SameHandleBetweenClears ==
    [][Last(ops').name # "clear" =>
         \A i \in 1..Len(rets') :
            LET h == CachedHandle(shaders, rets'[i].type, rets'[i].source)
            IN h # Null => rets'[i].ret = h]_vars

\* C13 amended: between two consecutive clear() or refresh() calls every
\* lookup of a key returns the handle its first lookup returned: a lookup
\* returns the handle cached for its key since the last reset, a handle it
\* returns is the one cached from then on, and no step but a reset changes a
\* cached handle.
C13_SameHandleBetweenResets ==
    [][LET resets == Last(ops').name \in {"clear", "refresh"}
       IN /\ \A i \in 1..Len(rets') :
                LET h == CachedHandle(shaders, rets'[i].type, rets'[i].source)
                IN /\ (h # Null /\ ~resets) => rets'[i].ret = h
                   /\ rets'[i].ret # Null =>
                         CachedHandle(shaders', rets'[i].type, rets'[i].source) =
                           rets'[i].ret
          /\ \A type \in Kinds, source \in Sources :
                LET h == CachedHandle(shaders, type, source)
                IN (h # Null /\ ~resets) =>
                      CachedHandle(shaders', type, source) = h]_vars

\* C13 witness: after a refresh recompiled a key, a getProgram looked that key
\* up and got the handle of the recompiled shader.
C13_Witness ==
    /\ LastOp.name = "getProgram"
    /\ \E i \in 1..Len(rets), a \in 1..Len(glShaders) :
         /\ rets[i].ret # Null
         /\ a < rets[i].ret
         /\ glShaders[a] = glShaders[rets[i].ret]
         /\ \A k \in 1..Len(glCalls) :
               glCalls[k].fn = "compileShader" => glCalls[k].args[1] # rets[i].ret

\* How many calls of fn with the arguments args are among calls.
CallCount(calls, fn, args) ==
    Cardinality({k \in 1..Len(calls) : calls[k].fn = fn /\ calls[k].args = args})

\* C16: clear() completes; it passes each shader handle held in the shader
\* cache to the GPU's shader-delete call exactly once and deletes the GPU
\* program of each known program exactly once; afterwards both per-kind
\* shader maps, the program cache and the list of known programs are empty.
C16_ClearDestroysAndEmpties ==
    [][Last(ops').name = "clear" =>
         /\ Last(ops').thrown.kind = "none"
         /\ \A type \in Kinds, source \in Sources :
               LET h == CachedHandle(shaders, type, source)
               IN h # Null => CallCount(glCalls', "deleteShader", <<h>>) = 1
         /\ \A i \in 1..Len(programList) :
               CallCount(glCalls', "deleteProgram",
                         <<heap[programList[i]].program>>) = 1
         /\ Get(shaders', GL_FRAGMENT_SHADER) = EmptyObject
         /\ Get(shaders', GL_VERTEX_SHADER) = EmptyObject
         /\ programs' = EmptyObject
         /\ programList' = << >>]_vars

-----------------------------------------------------------------------------
(* Specification SpecPrograms: the program stack and poll() *)

NextPrograms == GetProgram \/ PushProgram \/ PopProgram \/ Poll

SpecPrograms == Init /\ [][NextPrograms]_vars

\* Every pop so far matched an earlier push: the base frame is in place.
PopsMatched == shaderStack # << >> /\ shaderStack[1] = Null

\* C11: with every pop matching an earlier push, poll() acts on the most
\* recently pushed program not yet popped: it invokes that program's routine
\* and returns normally; with none pushed it issues useProgram(null) and
\* invokes no routine.
C11_PollActsOnTop ==
    (LastOp.name = "poll" /\ PopsMatched) =>
        IF Len(shaderStack) > 1
        THEN /\ LastOp.ret = Last(shaderStack)
             /\ LastOp.thrown.kind = "none"
             /\ ~HasCall(glCalls, "useProgram")
        ELSE /\ LastOp.ret = Null
             /\ LastOp.thrown.kind = "none"
             /\ glCalls = << Call("useProgram", <<Null>>) >>

\* The calls that apply a value at a uniform location / an attribute slot.
AppliesUniform(call, location) ==
    call.fn = "uniform" /\ call.args[1] = location

AppliesAttribute(call, slot) ==
    call.fn \in {"vertexAttrib4f", "vertexAttribPointer"} /\ call.args[1] = slot

\* C17: a poll() with an active program runs the routine link() built for
\* it: it completes, applies a value at the location of every uniform and at
\* the slot of every attribute the program declares, and applies nothing
\* else.
C17_PollAppliesDeclared ==
    (LastOp.name = "poll" /\ LastOp.ret # Null) =>
        LET program == heap[LastOp.ret]
        IN /\ LastOp.thrown.kind = "none"
           /\ \A u \in 1..Len(program.uniforms) :
                 \E k \in 1..Len(glCalls) :
                    AppliesUniform(glCalls[k], program.uniforms[u].location)
           /\ \A a \in 1..Len(program.attributes) :
                 \E k \in 1..Len(glCalls) :
                    AppliesAttribute(glCalls[k], program.attributes[a].location)
           /\ \A k \in 1..Len(glCalls) :
                 \/ \E u \in 1..Len(program.uniforms) :
                       AppliesUniform(glCalls[k], program.uniforms[u].location)
                 \/ \E a \in 1..Len(program.attributes) :
                       AppliesAttribute(glCalls[k], program.attributes[a].location)

\* C19: the program stack always has at least one element and its bottom
\* element is the null base frame, so what poll() reads as the active program
\* is the base frame or a pushed program.
C19_BaseFrameKept ==
    /\ Len(shaderStack) >= 1
    /\ shaderStack[1] = Null
    /\ LastOp.name = "poll" => LastOp.ret = Last(shaderStack)

-----------------------------------------------------------------------------
(* Specification SpecLink: introspection of linked programs *)

\* "s3" declares an array inside the first element of an array of structs.
LinkSources == {"s1", "s2", "s3"}

LinkCreate ==
    \E vertSource \in LinkSources, fragSource \in LinkSources :
        GetProgramStep(vertSource, fragSource, TRUE)

NextLink == LinkCreate \/ Refresh

SpecLink == Init /\ [][NextLink]_vars

\* The name of element j of the array uniform declared as `name`: the index
\* placeholder that ends the declared name is replaced.
ElementName(name, j) ==
    SubSeq(name, 1, Len(name) - 3) \o <<"[">> \o NumberToString(j) \o <<"]">>

\* The descriptor names the active uniforms (or attributes) infos call for.
RECURSIVE DeclaredNames(_, _)
DeclaredNames(infos, expand) ==
    IF infos = << >> THEN << >>
    ELSE (IF Head(infos) = NoInfo THEN << >>
          ELSE IF expand /\ Head(infos).size > 1
          THEN [j \in 1..Head(infos).size |-> ElementName(Head(infos).name, j - 1)]
          ELSE << Head(infos).name >>)
         \o DeclaredNames(Tail(infos), expand)

DescriptorNames(descriptors) ==
    [k \in 1..Len(descriptors) |-> descriptors[k].name]

\* C12: a linked program has, per active uniform, one descriptor under the
\* declared name when its size is 1 and, when its size is n > 1, n descriptors
\* in index order named after the elements [0] .. [n-1] of the declared
\* array; per active attribute it has exactly one descriptor.
C12_UniformExpansion ==
    \A id \in Issued :
        /\ DescriptorNames(heap[id].uniforms) =
              DeclaredNames(ActiveUniforms(heap[id].fragSrc), TRUE)
        /\ DescriptorNames(heap[id].attributes) =
              DeclaredNames(ActiveAttribs(heap[id].vertSrc), FALSE)

-----------------------------------------------------------------------------
(* Attribute registration and the override stacks *)

CompileStateUnchanged ==
    UNCHANGED <<glHasDestroyShader, glShaders, glPrograms, shaders, programs,
                programList, heap, uniforms, shaderStack, attributeBindings,
                glArrayBuffer, USE_INSTANCING, handedOut, eq>>

\* The exported defAttribute(name); n is the length of the log kept.
DefAttributeStep(name, n) ==
    /\ attributes' = defAttribute(attributes, name)
    /\ ops' = Log(Op("defAttribute", <<name>>, Null, NoError), n)
    /\ glCalls' = << >>
    /\ rets' = << >>
    /\ CompileStateUnchanged

\* A call on a name that was never registered reads attributes[name] as
\* undefined and fails on it.
Unregistered(fn, name, n) ==
    /\ ~Has(attributes, name)
    /\ attributes' = attributes
    /\ ops' = Log(Op(fn, <<name>>, Null,
                     TypeError("attributes[name] is undefined")), n)

PushAttributeStep(name, x, y, z, w, n) ==
    /\ \/ Unregistered("pushAttribute", name, n)
       \/ /\ Has(attributes, name)
          /\ LET r == pushAttribute(Get(attributes, name), x, y, z, w)
             IN /\ attributes' = Put(attributes, name, r.stack)
                /\ ops' = Log(Op("pushAttribute", <<name, x, y, z, w>>,
                                 Null, r.thrown), n)
    /\ glCalls' = << >>
    /\ rets' = << >>
    /\ CompileStateUnchanged

PushAttributePointerStep(name, buffer, size, offset, stride, divisor, normalized, type, n) ==
    /\ \/ Unregistered("pushAttributePointer", name, n)
       \/ /\ Has(attributes, name)
          /\ LET r == pushAttributePointer(Get(attributes, name), buffer, size,
                          offset, stride, divisor, normalized, type)
             IN /\ attributes' = Put(attributes, name, r.stack)
                /\ ops' = Log(Op("pushAttributePointer",
                                 <<name, buffer, size, offset, stride, divisor,
                                   normalized, type>>, Null, r.thrown), n)
    /\ glCalls' = << >>
    /\ rets' = << >>
    /\ CompileStateUnchanged

PopAttributeStep(name, n) ==
    /\ \/ Unregistered("popAttribute", name, n)
       \/ /\ Has(attributes, name)
          /\ attributes' = Put(attributes, name,
                               popAttribute(Get(attributes, name)))
          /\ ops' = Log(Op("popAttribute", <<name>>, Null, NoError), n)
    /\ glCalls' = << >>
    /\ rets' = << >>
    /\ CompileStateUnchanged

\* The top index of a name's stack, 0 for a name without one.
Top(name) == IF Has(attributes, name) THEN Get(attributes, name).top ELSE 0

-----------------------------------------------------------------------------
(* Specification SpecRegister: linking and the stacks it registers *)

RegisterSources == {"s1", "s2"}

RegisterNames == { <<"p">>, <<"u", "[", "1", "]">> }

CreateProgram ==
    \E vertSource \in RegisterSources, fragSource \in RegisterSources :
        GetProgramStep(vertSource, fragSource, TRUE)

DefAttribute == \E name \in RegisterNames : DefAttributeStep(name, 1)

PushAttribute ==
    \E name \in RegisterNames :
        Top(name) < MaxFrames /\ PushAttributeStep(name, 1, 0, 0, 1, 1)

PopAttribute ==
    \E name \in RegisterNames :
        Top(name) > 0 /\ PopAttributeStep(name, 1)

NextRegister ==
    CreateProgram \/ Refresh \/ DefAttribute \/ PushAttribute \/ PopAttribute

SpecRegister == Init /\ [][NextRegister]_vars

\* C7: registration is idempotent: link() (through getProgram or refresh) and
\* defAttribute keep the stack of every name that already has one, with its
\* frames and its top index.
C7_RegistrationKeepsStack ==
    [][Last(ops').name \in {"getProgram", "refresh", "defAttribute"} =>
         \A i \in 1..Len(attributes) :
            /\ Has(attributes', attributes[i][1])
            /\ Get(attributes', attributes[i][1]) = attributes[i][2]]_vars

-----------------------------------------------------------------------------
(* Specification SpecStack: one attribute stack, from several depths *)

StackName == <<"p">>

\* The stack after d frames were pushed on a new one.
RECURSIVE Pushed(_, _)
Pushed(stack, d) ==
    IF d = 0 THEN stack
    ELSE Pushed(pushAttribute(stack, 0, 0, 0, 0).stack, d - 1)

StartDepths ==
    {0, 1, PreallocatedFrames - 1, PreallocatedFrames, PreallocatedFrames + 1}

InitStack ==
    /\ InitContext /\ InitState
    /\ USE_INSTANCING = FALSE
    /\ eq = NoEquals
    /\ \E d \in StartDepths :
         attributes = << <<StackName, Pushed(AttributeStack, d)>> >>

Values == {1, 2}
Buffers == {1, 2}

StackPushAttribute ==
    /\ Len(ops) < MaxStackOps
    /\ \E x \in Values :
         PushAttributeStep(StackName, x, 0, 0, 1, MaxStackOps)

StackPushAttributePointer ==
    /\ Len(ops) < MaxStackOps
    /\ \E buffer \in Buffers, size \in {0, 3} :
         PushAttributePointerStep(StackName, buffer, size, 4, 16, 1, TRUE,
                                  "BYTE", MaxStackOps)

StackPopAttribute ==
    /\ Len(ops) < MaxStackOps
    /\ PopAttributeStep(StackName, MaxStackOps)

NextStack == StackPushAttribute \/ StackPushAttributePointer \/ StackPopAttribute

SpecStack == InitStack /\ [][NextStack]_vars

IsPush(o) == o.name \in {"pushAttribute", "pushAttributePointer"}

\* Whether frame holds the mode and the field values the push o wrote.
HoldsPushed(frame, o) ==
    IF o.name = "pushAttribute"
    THEN /\ ~frame.pointer
         /\ <<frame.x, frame.y, frame.z, frame.w>> =
              <<o.args[2], o.args[3], o.args[4], o.args[5]>>
    ELSE /\ frame.pointer
         /\ <<frame.buffer, frame.size, frame.offset, frame.stride,
              frame.divisor, frame.normalized, frame.type>> =
              <<o.args[2], o.args[3], o.args[4], o.args[5], o.args[6],
                o.args[7], o.args[8]>>

\* The three newest operations are push(A); push(B); pop(), starting from a
\* depth >= 0.
PushPushPop ==
    /\ Len(ops) >= 3
    /\ IsPush(ops[Len(ops) - 2])
    /\ IsPush(ops[Len(ops) - 1])
    /\ Last(ops).name = "popAttribute"
    /\ Top(StackName) >= 1

\* C8: after push(A); push(B); pop() from any depth >= 0, also past the
\* preallocated frames, the frame at the top of the stack holds exactly what
\* was pushed for A, for constant and pointer frames.
C8_StackLaw ==
    PushPushPop =>
        LET stack == Get(attributes, StackName)
        IN /\ stack.top <= Len(stack.records)
           /\ HoldsPushed(stack.records[stack.top], ops[Len(ops) - 2])

\* C8 witness: the law's case past the preallocated frames, A a pointer frame
\* and B a constant frame.
C8_Witness ==
    /\ PushPushPop
    /\ Top(StackName) > PreallocatedFrames
    /\ ops[Len(ops) - 2].name = "pushAttributePointer"
    /\ ops[Len(ops) - 1].name = "pushAttribute"

\* C18: after every pushAttribute, pushAttributePointer and popAttribute, also
\* with more pops than pushes, 0 <= top <= length of the backing array, the
\* backing array is no shorter than before, and a push got an existing frame
\* record (it wrote its frame and completed).
C18_TopWithinBackingArray ==
    [][LET before == Get(attributes, StackName)
           after == Get(attributes', StackName)
       IN /\ 0 <= after.top
          /\ after.top <= Len(after.records)
          /\ Len(before.records) <= Len(after.records)
          /\ IsPush(Last(ops')) => Last(ops').thrown.kind = "none"]_vars

-----------------------------------------------------------------------------
(* Specification SpecUniform: the uniform registry *)

UniformNamesRegistered == {<<"c">>, <<"u", "[", "0", "]">>}

UniformStateUnchanged ==
    /\ glCalls' = << >>
    /\ rets' = << >>
    /\ UNCHANGED <<glHasDestroyShader, glShaders, glPrograms, shaders, programs,
                   programList, heap, attributes, shaderStack, attributeBindings,
                   glArrayBuffer, USE_INSTANCING, handedOut, eq>>

\* The exported defUniform(name).
DefUniform ==
    \E name \in UniformNamesRegistered :
        /\ uniforms' = defUniform(uniforms, name)
        /\ ops' = Log1(Op("defUniform", <<name>>, Null, NoError))
        /\ UniformStateUnchanged

\* A caller pushes an override on a registered name's list, reached through
\* the exported uniforms object.
PushUniform ==
    \E name \in UniformNamesRegistered, v \in Values :
        /\ Has(uniforms, name)
        /\ Len(Get(uniforms, name).items) < MaxOverrides
        /\ uniforms' = Put(uniforms, name,
                           [Get(uniforms, name) EXCEPT !.items = Append(@, v)])
        /\ ops' = Log1(Op("uniforms.push", <<name, v>>, Null, NoError))
        /\ UniformStateUnchanged

\* A caller pops the newest override of a registered name.
PopUniform ==
    \E name \in UniformNamesRegistered :
        /\ Has(uniforms, name)
        /\ Get(uniforms, name).items # << >>
        /\ uniforms' = Put(uniforms, name,
                           [Get(uniforms, name) EXCEPT
                              !.items = SubSeq(@, 1, Len(@) - 1)])
        /\ ops' = Log1(Op("uniforms.pop", <<name>>, Null, NoError))
        /\ UniformStateUnchanged

NextUniform == DefUniform \/ PushUniform \/ PopUniform

SpecUniform == Init /\ [][NextUniform]_vars

\* C14: the first defUniform(name) associates an empty list with the name;
\* every later one leaves the registry unchanged, the same list object with
\* its contents; no call changes the entry of another name.
C14_DefUniformIdempotent ==
    [][Last(ops').name = "defUniform" =>
         LET name == Last(ops').args[1]
         IN /\ Has(uniforms', name)
            /\ IF Has(uniforms, name)
               THEN uniforms' = uniforms
               ELSE /\ Get(uniforms', name).items = << >>
                    /\ \A k \in 1..Len(uniforms) :
                          Get(uniforms', name).object # uniforms[k][2].object
            /\ \A k \in 1..Len(uniforms) :
                  uniforms[k][1] # name => uniforms'[k] = uniforms[k]]_vars

\* C14 witness: defUniform was called for a name whose list holds overrides,
\* another name being registered too.
C14_Witness ==
    /\ LastOp.name = "defUniform"
    /\ Len(uniforms) = 2
    /\ Get(uniforms, LastOp.args[1]).items # << >>

-----------------------------------------------------------------------------
(* Specification SpecEquals: AttributeRecord.equals on pairs of records *)

\* The fields equals is specified over, by mode.
ConstantFields == {"x", "y", "z", "w"}
PointerFields == {"buffer", "normalized", "type", "offset", "stride", "divisor"}

\* One record of each mode (a pointer frame reuses a record that held a
\* constant, and the other way round), and the untouched record.
EqualsRecords ==
    { AttributeRecord,
      pushAttribute(AttributeStack, 1, 2, 3, 4).stack.records[1],
      pushAttributePointer(AttributeStack, 1, 3, 4, 16, 1, TRUE, "BYTE").stack.records[1],
      pushAttributePointer(
          popAttribute(pushAttribute(AttributeStack, 1, 2, 3, 4).stack),
          2, 2, 0, 8, 0, FALSE, GL_FLOAT).stack.records[1] }

\* Another value for field f than v.
Other(f, v) ==
    IF f \in {"pointer", "normalized"} THEN ~v
    ELSE IF f = "type" THEN (IF v = GL_FLOAT THEN "BYTE" ELSE GL_FLOAT)
    ELSE v + 1

\* r, and r with one field changed.
Variants(r) ==
    {r} \cup {[r EXCEPT ![f] = Other(f, r[f])] :
                f \in ConstantFields \cup PointerFields \cup {"pointer"}}

InitEquals ==
    /\ InitContext /\ InitState
    /\ USE_INSTANCING = FALSE
    /\ attributes = EmptyObject
    /\ \E this \in EqualsRecords :
         \E other \in Variants(this), size \in {this.size, this.size + 1} :
            eq = [done |-> FALSE, this |-> this, other |-> other, size |-> size]

Equals ==
    /\ ~eq.done
    /\ eq' = [done |-> TRUE, this |-> eq.this, other |-> eq.other,
              size |-> eq.size, result |-> equals(eq.this, eq.other, eq.size)]
    /\ UNCHANGED <<glHasDestroyShader, glShaders, glPrograms, glCalls, shaders,
                   programs, programList, heap, uniforms, attributes,
                   shaderStack, attributeBindings, glArrayBuffer,
                   USE_INSTANCING, handedOut, rets, ops>>

SpecEquals == InitEquals /\ [][Equals]_vars

\* The fields of this record's mode in which the two records differ; the
\* component count of `this` is compared with the resolved size.
Differing(this, other, size) ==
    IF this.pointer
    THEN {f \in PointerFields : this[f] # other[f]}
           \cup (IF this.size # size THEN {"size"} ELSE {})
    ELSE {f \in ConstantFields : this[f] # other[f]}

\* C9: equals is true for two records of the same mode whose fields of that
\* mode are identical, false when exactly one field of that mode differs,
\* and false when the modes differ.
C9_EqualsComparesModeFields ==
    eq.done =>
        LET d == Differing(eq.this, eq.other, eq.size)
        IN /\ (eq.this.pointer = eq.other.pointer /\ d = {}) => eq.result
           /\ (eq.this.pointer = eq.other.pointer /\ Cardinality(d) = 1) =>
                 ~eq.result
           /\ eq.this.pointer # eq.other.pointer => ~eq.result

-----------------------------------------------------------------------------
(* Specification SpecBind: bindAttribute on the binding slots *)

BindResult(bindings, bound, calls, thrown) ==
    [bindings |-> bindings, bound |-> bound, glCalls |-> calls, thrown |-> thrown]

\* bindAttribute's last statement: AttributeRecord has equals and copy, and
\* no method named set.
recordApplied(bindings, bound, calls) ==
    BindResult(bindings, bound, calls, TypeError("current.set is not a function"))

\* The pointer branch from vertexAttribPointer on.
bindPointer(bindings, bound, calls, index, next, size, useInstancing) ==
    recordApplied(bindings, bound,
        calls \o << Call("vertexAttribPointer",
                         <<index, size, next.type, next.normalized,
                           next.stride, next.offset>>) >>
              \o (IF useInstancing
                  THEN << Call("vertexAttribDivisor", <<index, next.divisor>>) >>
                  ELSE << >>))

\* bindAttribute once the records were found unequal; current is the slot's
\* record.
bindChanged(bindings, bound, current, index, next, size, useInstancing) ==
    IF ~next.pointer
    THEN recordApplied(bindings, bound,
            (IF current.pointer
             THEN << Call("disableVertexAttribArray", <<index>>) >>
             ELSE << >>)
            \o << Call("vertexAttrib4f", <<next.x, next.y, next.z, next.w>>) >>)
    ELSE IF current.buffer # next.buffer
    THEN IF next.buffer = Null
         THEN BindResult(bindings, bound,
                  IF ~current.pointer
                  THEN << Call("enableVertexAttribArray", <<index>>) >>
                  ELSE << >>,
                  TypeError("next.buffer is null"))
         ELSE bindPointer(bindings, next.buffer,
                  (IF ~current.pointer
                   THEN << Call("enableVertexAttribArray", <<index>>) >>
                   ELSE << >>)
                  \o << Call("buffer.bind", <<next.buffer>>) >>,
                  index, next, size, useInstancing)
    ELSE bindPointer(bindings, bound,
             IF ~current.pointer
             THEN << Call("enableVertexAttribArray", <<index>>) >>
             ELSE << >>,
             index, next, size, useInstancing)

\* bindAttribute after size = next.size || size.
bindResolved(bindings, bound, index, next, size, useInstancing) ==
    IF equals(bindings[index + 1], next, size)
    THEN BindResult(bindings, bound, << >>, NoError)
    ELSE bindChanged(bindings, bound, bindings[index + 1], index, next, size,
                     useInstancing)

\* bindAttribute(index, next, size); bound is the buffer bound on the GPU.
bindAttribute(bindings, bound, index, next, size, useInstancing) ==
    bindResolved(bindings, bound, index, next,
                 IF next.size # 0 THEN next.size ELSE size, useInstancing)

InitBind ==
    /\ InitContext /\ InitState
    /\ USE_INSTANCING \in BOOLEAN
    /\ attributes = EmptyObject
    /\ eq = NoEquals

\* The records a caller asks for: the top frames of attribute stacks.
BindRecords ==
    EqualsRecords \cup
    { pushAttributePointer(AttributeStack, 2, 0, 0, 0, 0, FALSE, GL_FLOAT).stack.records[1],
      pushAttributePointer(AttributeStack, Null, 2, 0, 0, 0, FALSE, GL_FLOAT).stack.records[1],
      pushAttribute(AttributeStack, 0, 0, 0, 1).stack.records[1] }

FallbackSizes == {0, 3}

BindAttributeDone(r, index, next, size) ==
    /\ attributeBindings' = r.bindings
    /\ glArrayBuffer' = r.bound
    /\ glCalls' = r.glCalls
    /\ ops' = Log(Op("bindAttribute", <<index, next, size>>, Null, r.thrown), 2)
    /\ UNCHANGED <<glHasDestroyShader, glShaders, glPrograms, shaders, programs,
                   programList, heap, uniforms, attributes, shaderStack,
                   USE_INSTANCING, handedOut, rets, eq>>

BindAttribute ==
    \E index \in 0..(NUM_ATTRIBUTES - 1), next \in BindRecords,
       size \in FallbackSizes :
        BindAttributeDone(bindAttribute(attributeBindings, glArrayBuffer, index,
                                        next, size, USE_INSTANCING),
                          index, next, size)

SpecBind == InitBind /\ [][BindAttribute]_vars

\* C10: of two bindAttribute calls in a row with the same slot, record and
\* fallback size, the first completes and records the requested state in the
\* slot, and the second issues no GPU call.
C10_SecondBindIsSilent ==
    (Len(ops) = 2 /\ ops[1].args = ops[2].args) =>
        LET index == ops[2].args[1]
            next == ops[2].args[2]
            size == IF next.size # 0 THEN next.size ELSE ops[2].args[3]
        IN /\ ops[1].thrown.kind = "none"
           /\ attributeBindings[index + 1] =
                copy(attributeBindings[index + 1], next, size)
           /\ glCalls = << >>

\* The GPU calls a mismatch calls for, in order; current is the slot's
\* recorded state and size the resolved component count.
CallsInOrder(current, index, next, size, useInstancing) ==
    IF ~next.pointer
    THEN (IF current.pointer
          THEN << Call("disableVertexAttribArray", <<index>>) >> ELSE << >>)
         \o << Call("vertexAttrib4f", <<index, next.x, next.y, next.z, next.w>>) >>
    ELSE (IF ~current.pointer
          THEN << Call("enableVertexAttribArray", <<index>>) >> ELSE << >>)
         \o (IF current.buffer # next.buffer
             THEN << Call("buffer.bind", <<next.buffer>>) >> ELSE << >>)
         \o << Call("vertexAttribPointer",
                    <<index, size, next.type, next.normalized, next.stride,
                      next.offset>>) >>
         \o (IF useInstancing
             THEN << Call("vertexAttribDivisor", <<index, next.divisor>>) >>
             ELSE << >>)

\* C15: a bindAttribute call that finds the requested record unequal to the
\* slot's recorded state issues, for that slot and in this order: for a
\* constant request, disable (only if the slot was recorded as pointer mode)
\* then the constant 4-vector; for a pointer request, enable (only if recorded
\* as constant mode), bind the buffer (only if it differs), the pointer
\* description with the resolved component count, the divisor (only with
\* instancing).
C15_CallsInOrder ==
    [][Last(ops').name = "bindAttribute" =>
         LET index == Last(ops').args[1]
             next == Last(ops').args[2]
             size == IF next.size # 0 THEN next.size ELSE Last(ops').args[3]
             current == attributeBindings[index + 1]
         IN ~equals(current, next, size) =>
               glCalls' = CallsInOrder(current, index, next, size,
                                       USE_INSTANCING)]_vars

\* C20: when bindAttribute has issued vertexAttribPointer for a pointer-mode
\* request, the buffer bound on the GPU is the requested record's buffer (so
\* the rebind was skipped only with that buffer already bound).
C20_PointerReadsRequestedBuffer ==
    (LastOp.name = "bindAttribute" /\ HasCall(glCalls, "vertexAttribPointer")) =>
        glArrayBuffer = LastOp.args[2].buffer
=============================================================================
